---- MODULE Spec2Model ----
(***************************************************************************)
(* A model of concepts.py: the constraint algebra (IntRange, ValueSet,     *)
(* AnyValue), atomic and composite concepts, frame schemas with their      *)
(* ancestry sets, possible worlds, frame instances and the Kripke          *)
(* structure with its reachable-extension query.                           *)
(*                                                                         *)
(* A Python exception is a value Raise(exc); an operator that models a     *)
(* method returns either the method's result or the exception it raises,   *)
(* and a caller that does not catch passes the exception on.               *)
(*                                                                         *)
(* The components share no state, so each has a specification of its own:  *)
(* SpecConstraint, SpecConcept, SpecFrame, SpecWorld, SpecKripke (and      *)
(* FairSpecKripke, in which a started query keeps running).  While one     *)
(* component runs, the variables of the others keep their initial values.  *)
(***************************************************************************)
EXTENDS Integers, Sequences, FiniteSets, TLC

VARIABLES
    cself, cother, cret,            \* constraint algebra: receiver, argument, result
    kself, kother, kdata, kret,     \* concept algebra: receiver, argument, data, result
    heap, fret,                     \* frame schemas: the Frame objects made, last call
    concepts, frames, wlog, wret,   \* one PossibleWorld, the calls that changed it, last call
    worlds, accessibility,          \* the KripkeStructure
    pc, start, qconcept, visited, queue, results,
                                    \* one get_reachable_extension call
    computed, expanded, iters       \* what that call has done so far, counted

cvars == <<cself, cother, cret>>
kvars == <<kself, kother, kdata, kret>>
fvars == <<heap, fret>>
wvars == <<concepts, frames, wlog, wret>>
svars == <<worlds, accessibility>>
qvars == <<pc, start, qconcept, visited, queue, results, computed, expanded, iters>>
vars == <<cvars, kvars, fvars, wvars, svars, qvars>>

----------------------------------------------------------------------------
(* Bounds of the model. *)

\* integer attribute values are 0..MaxVal
MaxVal == 2
\* string attribute values are Str(1)..Str(MaxStr)
MaxStr == 2

----------------------------------------------------------------------------
(* Python values.  A scalar is an int or a str; instance data is a dict    *)
(* from attribute names to scalars.                                        *)

Int_(n) == [t |-> "int", v |-> n]
Str(n) == [t |-> "str", v |-> n]
Dict(d) == [t |-> "dict", d |-> d]

Ints == {Int_(n) : n \in 0..MaxVal}
Strs == {Str(n) : n \in 1..MaxStr}
Scalars == Ints \cup Strs

\* a bool a method returns, beside the exception it may raise instead
Bool(b) == [kind |-> "bool", b |-> b]
IsTrue(r) == r.kind = "bool" /\ r.b
IsFalse(r) == r.kind = "bool" /\ ~r.b

Raise(exc) == [kind |-> "Raise", exc |-> exc]
IsRaise(x) == x.kind = "Raise"
None == [kind |-> "None"]
\* the last call of a component, before any call
NoCall == [op |-> "none"]

Max(a, b) == IF a >= b THEN a ELSE b
Min(a, b) == IF a <= b THEN a ELSE b

----------------------------------------------------------------------------
(* A Python dict: its items in insertion order, keys distinct.  Assigning  *)
(* to a key that is present keeps the key's place.                         *)

EmptyDict == <<>>
Keys(d) == {d[i][1] : i \in DOMAIN d}
Has(d, k) == k \in Keys(d)
Get(d, k) == d[CHOOSE i \in DOMAIN d : d[i][1] = k][2]
Set(d, k, val) ==
    IF Has(d, k)
    THEN [i \in DOMAIN d |-> IF d[i][1] = k THEN <<k, val>> ELSE d[i]]
    ELSE Append(d, <<k, val>>)
Values(d) == [i \in DOMAIN d |-> d[i][2]]

----------------------------------------------------------------------------
(* Constraints. *)

\* IntRange.__init__: stores the bounds, then rejects min > max
\* (the bounds of the model are ints; the defaults -inf and inf are not used)
IntRange(min_val, max_val) ==
    IF min_val > max_val
    THEN Raise("ValueError")
    ELSE [kind |-> "IntRange", min_val |-> min_val, max_val |-> max_val]

\* ValueSet.__init__: stores the set, then rejects the empty set
ValueSet(allowed_values) ==
    IF allowed_values = {}
    THEN Raise("ValueError")
    ELSE [kind |-> "ValueSet", allowed |-> allowed_values]

AnyValue == [kind |-> "AnyValue"]

\* isinstance(value, (int, float))
IsNumber(value) == value.t = "int"

\* hash(value) succeeds: a dict is unhashable
Hashable(value) == value.t # "dict"

IntRange_check(self, value) ==
    IF ~IsNumber(value) THEN Bool(FALSE)
    ELSE Bool(self.min_val <= value.v /\ value.v <= self.max_val)

\* value in self.allowed: hashes value first
ValueSet_check(self, value) ==
    IF ~Hashable(value) THEN Raise("TypeError")
    ELSE Bool(\E a \in self.allowed : a.t = value.t /\ a.v = value.v)

AnyValue_check(self, value) == Bool(TRUE)

Constraint_check(self, value) ==
    CASE self.kind = "IntRange" -> IntRange_check(self, value)
      [] self.kind = "ValueSet" -> ValueSet_check(self, value)
      [] self.kind = "AnyValue" -> AnyValue_check(self, value)

IntRange_implies(self, other) ==
    IF other.kind = "IntRange"
    THEN self.min_val >= other.min_val /\ self.max_val <= other.max_val
    ELSE IF other.kind = "AnyValue" THEN TRUE
    ELSE FALSE

ValueSet_implies(self, other) ==
    IF other.kind = "ValueSet"
    THEN self.allowed \subseteq other.allowed
    ELSE IF other.kind = "AnyValue" THEN TRUE
    ELSE FALSE

AnyValue_implies(self, other) == other.kind = "AnyValue"

Constraint_implies(self, other) ==
    CASE self.kind = "IntRange" -> IntRange_implies(self, other)
      [] self.kind = "ValueSet" -> ValueSet_implies(self, other)
      [] self.kind = "AnyValue" -> AnyValue_implies(self, other)

IntRange_intersect(self, other) ==
    IF other.kind # "IntRange" THEN Raise("TypeError")
    ELSE IntRange(Max(self.min_val, other.min_val), Min(self.max_val, other.max_val))

ValueSet_intersect(self, other) ==
    IF other.kind # "ValueSet" THEN Raise("TypeError")
    ELSE ValueSet(self.allowed \cap other.allowed)

AnyValue_intersect(self, other) == other

Constraint_intersect(self, other) ==
    CASE self.kind = "IntRange" -> IntRange_intersect(self, other)
      [] self.kind = "ValueSet" -> ValueSet_intersect(self, other)
      [] self.kind = "AnyValue" -> AnyValue_intersect(self, other)

\* the constraints that can be constructed within the bounds
IntRanges ==
    {IntRange(lo, hi) : lo \in 0..MaxVal, hi \in 0..MaxVal} \ {Raise("ValueError")}
ValueSets == {ValueSet(s) : s \in (SUBSET Strs \cup {{Int_(0), Str(1)}})} \ {Raise("ValueError")}
Constraints == IntRanges \cup ValueSets \cup {AnyValue}

----------------------------------------------------------------------------
(* Concepts. *)

AtomicConcept(name, constraint) ==
    [kind |-> "Atomic", name |-> name, constraint |-> constraint]

CompositeConcept(name, attributes) ==
    [kind |-> "Composite", name |-> name, attributes |-> attributes]

\* AtomicConcept.check: hands data itself to the constraint
AtomicConcept_check(self, data) == Constraint_check(self.constraint, data)

\* the for loop of CompositeConcept.check, from item i on
RECURSIVE CompositeConcept_check_from(_, _, _)
CompositeConcept_check_from(self, i, data_dict) ==
    IF i > Len(self.attributes) THEN Bool(TRUE)
    ELSE LET attr_name == self.attributes[i][1]
             atom == self.attributes[i][2]
         IN  IF ~Has(data_dict, attr_name) THEN Bool(FALSE)
             ELSE LET r == AtomicConcept_check(atom, Get(data_dict, attr_name))
                  IN  IF IsRaise(r) THEN r
                      ELSE IF ~r.b THEN Bool(FALSE)
                      ELSE CompositeConcept_check_from(self, i + 1, data_dict)

CompositeConcept_check(self, data_dict) ==
    IF data_dict.t # "dict" THEN Bool(FALSE)
    ELSE CompositeConcept_check_from(self, 1, data_dict.d)

Concept_check(self, data) ==
    CASE self.kind = "Atomic" -> AtomicConcept_check(self, data)
      [] self.kind = "Composite" -> CompositeConcept_check(self, data)

AtomicConcept_is_subconcept_of(self, other) ==
    IF other.kind = "Atomic"
    THEN self.name = other.name /\ Constraint_implies(self.constraint, other.constraint)
    ELSE FALSE

CompositeConcept_is_subconcept_of(self, other) ==
    IF other.kind = "Atomic"
    THEN /\ Len(self.attributes) = 1
         /\ Has(self.attributes, other.name)
         /\ Constraint_implies(Get(self.attributes, other.name).constraint, other.constraint)
    ELSE IF other.kind = "Composite"
    THEN \A i \in DOMAIN other.attributes :
            LET key == other.attributes[i][1]
                other_atom == other.attributes[i][2]
            IN  /\ Has(self.attributes, key)
                /\ Constraint_implies(Get(self.attributes, key).constraint,
                                      other_atom.constraint)
    ELSE FALSE

Concept_is_subconcept_of(self, other) ==
    CASE self.kind = "Atomic" -> AtomicConcept_is_subconcept_of(self, other)
      [] self.kind = "Composite" -> CompositeConcept_is_subconcept_of(self, other)

\* the attrs dict being built, while nothing has raised
Attrs(d) == [kind |-> "attrs", d |-> d]

\* SetNarrowed with the narrowing forgotten: the attribute keeps the atom it had
SetNarrowed_kept(attrs, key, constraint) == Attrs(attrs)

\* attrs[key] = AtomicConcept(key, <constraint>), where computing the constraint may raise
SetNarrowed(attrs, key, constraint) ==
    IF IsRaise(constraint) THEN constraint
    ELSE Attrs(Set(attrs, key, AtomicConcept(key, constraint)))

\* the loop of BaseConcept.intersect over other.attributes.items(), from item i on
RECURSIVE Concept_intersect_from(_, _, _)
Concept_intersect_from(attrs, items, i) ==
    IF i > Len(items) THEN Attrs(attrs)
    ELSE LET key == items[i][1]
             atom == items[i][2]
             step == IF ~Has(attrs, key)
                     THEN Attrs(Set(attrs, key, atom))
                     ELSE SetNarrowed(attrs, key,
                              Constraint_intersect(Get(attrs, key).constraint,
                                                   atom.constraint))
         IN  IF IsRaise(step) THEN step
             ELSE Concept_intersect_from(step.d, items, i + 1)

\* BaseConcept.intersect
Concept_intersect(self, other, name) ==
    LET attrs0 == IF self.kind = "Composite" THEN self.attributes
                  ELSE Set(EmptyDict, self.name, self)
        attrs == IF other.kind = "Composite"
                 THEN Concept_intersect_from(attrs0, other.attributes, 1)
                 ELSE IF ~Has(attrs0, other.name)
                 THEN Attrs(Set(attrs0, other.name, other))
                 ELSE SetNarrowed(attrs0, other.name,
                          Constraint_intersect(other.constraint,
                                               Get(attrs0, other.name).constraint))
    IN  IF IsRaise(attrs) THEN attrs ELSE CompositeConcept(name, attrs.d)

\* BaseConcept.__and__
Concept_and(self, other) ==
    Concept_intersect(self, other,
        IF self.name # other.name
        THEN "(" \o self.name \o "^" \o other.name \o ")"
        ELSE self.name)

----------------------------------------------------------------------------
(* The values the variables of a component hold while another component    *)
(* is the one being run.                                                   *)

cIdle == cself = AnyValue /\ cother = AnyValue /\ cret = NoCall
kIdle == kself = AtomicConcept("battery", AnyValue) /\ kother = None
         /\ kdata = EmptyDict /\ kret = NoCall

----------------------------------------------------------------------------
(* The constraint algebra: a.intersect(b) for constructed constraints.     *)

CallConstraintIntersect ==
    /\ cret = NoCall
    /\ cret' = [op |-> "intersect", val |-> Constraint_intersect(cself, cother)]
    /\ UNCHANGED <<cself, cother>>

----------------------------------------------------------------------------
(* The concept algebra: a & b, a.check(data) for constructed concepts.     *)

AttrNames == {"battery", "protocol"}

\* the constraints the concepts of the model are built from
ConceptConstraints ==
    {IntRange(0, MaxVal), IntRange(1, MaxVal), IntRange(0, 0),
     ValueSet({Str(1)}), ValueSet(Strs), ValueSet({Int_(0), Str(1)}), AnyValue}

AtomicConcepts == {AtomicConcept(n, c) : n \in AttrNames, c \in ConceptConstraints}

\* the attribute dicts: atoms of distinct names, each stored under its own name
AttributeDicts ==
    {<<>>}
    \cup {<<<<a.name, a>>>> : a \in AtomicConcepts}
    \cup {<<<<a.name, a>>, <<b.name, b>>>> :
            <<a, b>> \in {p \in AtomicConcepts \X AtomicConcepts : p[1].name # p[2].name}}

CompositeConcepts == {CompositeConcept("Sensor", d) : d \in AttributeDicts}
Concepts == AtomicConcepts \cup CompositeConcepts

\* instance data: each attribute absent or bound to a scalar
Datas ==
    {<<>>}
    \cup {<<<<"battery", x>>>> : x \in Scalars}
    \cup {<<<<"protocol", y>>>> : y \in Scalars}
    \cup {<<<<"battery", x>>, <<"protocol", y>>>> : x \in Scalars, y \in Scalars}

CallAnd ==
    /\ kret = NoCall
    /\ \E other \in Concepts :
        /\ kother' = other
        /\ kret' = [op |-> "and", val |-> Concept_and(kself, other)]
    /\ UNCHANGED <<kself, kdata>>

CallCheck ==
    /\ kret = NoCall
    /\ \E data \in Datas :
        /\ kdata' = data
        /\ kret' = [op |-> "check", val |-> Concept_check(kself, Dict(data))]
    /\ UNCHANGED <<kself, kother>>

CallIsSubconceptOf ==
    /\ kret = NoCall
    /\ \E other \in Concepts :
        /\ kother' = other
        /\ kret' = [op |-> "is_subconcept_of",
                    val |-> Bool(Concept_is_subconcept_of(kself, other))]
    /\ UNCHANGED <<kself, kdata>>

----------------------------------------------------------------------------
(* Frame schemas.  A Frame is an object: heap[i] is the Frame with         *)
(* identity i, and _intersection holds identities.                         *)

FrameArgInfo(name, role, type) == [name |-> name, role |-> role, type |-> type]

\* dict([(x.name, x) for x in argsInfo])
RECURSIVE DictOfArgs(_, _, _)
DictOfArgs(argsInfo, i, d) ==
    IF i > Len(argsInfo) THEN d
    ELSE DictOfArgs(argsInfo, i + 1, Set(d, argsInfo[i].name, argsInfo[i]))

\* Frame.__init__, for the object of identity id
Frame(id, name, argsInfo) ==
    [kind |-> "Frame", name |-> name, argsInfo |-> DictOfArgs(argsInfo, 1, EmptyDict),
     _intersection |-> {id}]

\* argInfos.update([(k, v) for k, v in other.argsInfo.items() if k not in self.argsInfo.keys()])
RECURSIVE UpdateNew(_, _, _, _)
UpdateNew(argInfos, selfArgs, otherArgs, i) ==
    IF i > Len(otherArgs) THEN argInfos
    ELSE UpdateNew(IF Has(selfArgs, otherArgs[i][1]) THEN argInfos
                   ELSE Set(argInfos, otherArgs[i][1], otherArgs[i][2]),
                   selfArgs, otherArgs, i + 1)

\* sameNames = [(k, v) for k, v in other.argsInfo.items() if k in self.argsInfo.keys()]
SameNames(selfArgs, otherArgs) ==
    SelectSeq(otherArgs, LAMBDA kv : Has(selfArgs, kv[1]))

\* the for loop of Frame.intersect over sameNames, from item i on
RECURSIVE NarrowSame(_, _, _, _)
NarrowSame(argInfos, selfArgs, sameNames, i) ==
    IF i > Len(sameNames) THEN Attrs(argInfos)
    ELSE LET info == sameNames[i][2]
             mine == Get(selfArgs, info.name)
         IN  IF mine.role # info.role THEN Raise("ValueError")
             ELSE LET type == Concept_and(info.type, mine.type)
                  IN  IF IsRaise(type) THEN type
                      ELSE NarrowSame(
                               Set(argInfos, info.name,
                                   FrameArgInfo(info.name, info.role, type)),
                               selfArgs, sameNames, i + 1)

\* self._intersection.union(other._intersection)
IntersectionOf(self, other) == self._intersection \cup other._intersection

\* Frame.intersect, its result being the object of identity id
Frame_intersect(self, other, name, id) ==
    LET argInfos == NarrowSame(UpdateNew(self.argsInfo, self.argsInfo, other.argsInfo, 1),
                               self.argsInfo, SameNames(self.argsInfo, other.argsInfo), 1)
    IN  IF IsRaise(argInfos) THEN argInfos
        ELSE [Frame(id, name, Values(argInfos.d))
                 EXCEPT !._intersection = IntersectionOf(self, other)]

\* Frame.__and__
Frame_and(self, other, id) ==
    Frame_intersect(self, other, "(" \o self.name \o "^" \o other.name \o ")", id)

Frame_is_subframe_of(self, other) == other._intersection \subseteq self._intersection

\* a reference to the Frame object of identity id
Ref(id) == [kind |-> "ref", id |-> id]

\* how many Frame objects the model makes
MaxFrames == 4

c_device ==
    CompositeConcept("Device",
        <<<<"protocol", AtomicConcept("protocol", ValueSet(Strs))>>,
          <<"battery", AtomicConcept("battery", IntRange(0, MaxVal))>>>>)
c_sensor ==
    CompositeConcept("Sensor",
        <<<<"protocol", AtomicConcept("protocol", ValueSet({Str(1)}))>>,
          <<"battery", AtomicConcept("battery", IntRange(0, MaxVal))>>>>)
c_hub ==
    CompositeConcept("Hub",
        <<<<"protocol", AtomicConcept("protocol", ValueSet(Strs))>>,
          <<"battery", AtomicConcept("battery", IntRange(1, MaxVal))>>>>)
atom_bat_flat == AtomicConcept("battery", IntRange(0, 0))

\* the (name, argsInfo) a Frame is constructed from
FrameSchemas ==
    { [name |-> "Control",
       args |-> <<FrameArgInfo("actor", "Controller", c_hub),
                  FrameArgInfo("target", "Managed", c_device)>>],
      [name |-> "Topology",
       args |-> <<FrameArgInfo("target", "Managed", c_device),
                  FrameArgInfo("gateway", "Gateway", c_hub)>>],
      [name |-> "SensorTarget",
       args |-> <<FrameArgInfo("target", "Managed", c_sensor)>>],
      [name |-> "Relay",
       args |-> <<FrameArgInfo("target", "Gateway", c_device)>>],
      [name |-> "Flat",
       args |-> <<FrameArgInfo("actor", "Controller", atom_bat_flat)>>] }

fIdle == heap = <<>> /\ fret = NoCall

\* Frame(name, argsInfo)
NewFrame ==
    /\ Len(heap) < MaxFrames
    /\ \E schema \in FrameSchemas :
        LET id == Len(heap) + 1
        IN  /\ heap' = Append(heap, Frame(id, schema.name, schema.args))
            /\ fret' = [op |-> "new", self |-> id, other |-> id, val |-> Ref(id)]

\* heap[a] & heap[b]
CallFrameAnd ==
    /\ Len(heap) < MaxFrames
    /\ \E a \in DOMAIN heap, b \in DOMAIN heap :
        LET id == Len(heap) + 1
            res == Frame_and(heap[a], heap[b], id)
        IN  IF IsRaise(res)
            THEN /\ heap' = heap
                 /\ fret' = [op |-> "and", self |-> a, other |-> b, val |-> res]
            ELSE /\ heap' = Append(heap, res)
                 /\ fret' = [op |-> "and", self |-> a, other |-> b, val |-> Ref(id)]

----------------------------------------------------------------------------
(* The world model. *)

ConceptInstance(uid, data) == [uid |-> uid, data |-> data]

\* PossibleWorld.__init__
PossibleWorld(name) == [name |-> name, concepts |-> EmptyDict, frames |-> <<>>]

\* PossibleWorld.add_concept, on the world's concepts
PossibleWorld_add_concept(self_concepts, uid, data) ==
    Set(self_concepts, uid, ConceptInstance(uid, data))

\* PossibleWorld.add_frame, on the world's frames
PossibleWorld_add_frame(self_frames, frame_inst) == Append(self_frames, frame_inst)

\* a list a method returns, beside the exception it may raise instead
List(items) == [kind |-> "list", items |-> items]

\* the comprehension of PossibleWorld.get_extension, from item i on, acc collected so far
RECURSIVE get_extension_from(_, _, _, _)
get_extension_from(self_concepts, concept, i, acc) ==
    IF i > Len(self_concepts) THEN List(acc)
    ELSE LET instance == self_concepts[i][2]
             r == Concept_check(concept, Dict(instance.data))
         IN  IF IsRaise(r) THEN r
             ELSE get_extension_from(self_concepts, concept, i + 1,
                                     IF r.b THEN Append(acc, instance) ELSE acc)

PossibleWorld_get_extension(self_concepts, concept) ==
    get_extension_from(self_concepts, concept, 1, <<>>)

ArgumentMismatch == Raise("ValueError: Frame arguments mismatch")
TypeViolation == Raise("ValueError: Argument violates type")

\* the for loop of FrameInstance._validate over self.args.items(), from item i on
RECURSIVE validate_types_from(_, _, _)
validate_types_from(frame, args, i) ==
    IF i > Len(args) THEN None
    ELSE LET var_name == args[i][1]
             concept_inst == args[i][2]
             arg_info == Get(frame.argsInfo, var_name)
             r == Concept_check(arg_info.type, Dict(concept_inst.data))
         IN  IF IsRaise(r) THEN r
             ELSE IF ~r.b THEN TypeViolation
             ELSE validate_types_from(frame, args, i + 1)

FrameInstance_validate(frame, args) ==
    IF Keys(frame.argsInfo) # Keys(args) THEN ArgumentMismatch
    ELSE validate_types_from(frame, args, 1)

\* FrameInstance.__init__: the object, unless _validate raises
FrameInstance(frame, args) ==
    LET v == FrameInstance_validate(frame, args)
    IN  IF IsRaise(v) THEN v
        ELSE [kind |-> "FrameInstance", frame |-> frame, args |-> args]

----------------------------------------------------------------------------
(* The Kripke structure. *)

KripkeStructure_add_world(self_worlds, world) == Set(self_worlds, world.name, world)

KripkeStructure_add_access(self_accessibility, from_world, to_world) ==
    LET had == IF Has(self_accessibility, from_world)
               THEN self_accessibility
               ELSE Set(self_accessibility, from_world, <<>>)
    IN  Set(had, from_world, Append(Get(had, from_world), to_world))

\* queue.append(neighbor) for each neighbor not in visited, from neighbor i on
RECURSIVE EnqueueNeighbors(_, _, _, _)
EnqueueNeighbors(q, neighbors, seen, i) ==
    IF i > Len(neighbors) THEN q
    ELSE EnqueueNeighbors(IF neighbors[i] \notin seen THEN Append(q, neighbors[i]) ELSE q,
                          neighbors, seen, i + 1)

\* AlreadyVisited with the test forgotten: every popped name is visited again
AlreadyVisited_never(current_name, seen) == FALSE

\* `if current_name in visited: continue`
AlreadyVisited(current_name, seen) == current_name \in seen

----------------------------------------------------------------------------
(* One world: add_concept, FrameInstance(...), add_frame, get_extension.   *)

\* how many add_concept and add_frame calls the model makes
MaxCalls == 3

Uids == {"u1", "u2"}
ArgNames == {"actor", "target"}

WorldDatas ==
    { <<<<"protocol", Str(1)>>, <<"battery", Int_(MaxVal)>>>>,
      <<<<"protocol", Str(MaxStr)>>, <<"battery", Int_(0)>>>>,
      <<<<"battery", Int_(1)>>>> }

atom_bat_any == AtomicConcept("battery", IntRange(0, MaxVal))
atom_proto_any == AtomicConcept("protocol", ValueSet(Strs))
atom_free == AtomicConcept("battery", AnyValue)

\* the concepts extensions are asked for
QueryConcepts == {c_sensor, c_hub, atom_bat_any, atom_proto_any, atom_free}

\* the Frame objects instances are made of
WorldFrames ==
    { Frame(1, "Control", <<FrameArgInfo("actor", "Controller", c_hub),
                            FrameArgInfo("target", "Managed", c_device)>>),
      Frame(2, "SensorTarget", <<FrameArgInfo("target", "Managed", c_sensor)>>),
      Frame(3, "Powered", <<FrameArgInfo("actor", "Controller", atom_bat_any),
                            FrameArgInfo("target", "Managed", c_sensor)>>),
      Frame(4, "Linked", <<FrameArgInfo("actor", "Controller", atom_proto_any),
                           FrameArgInfo("target", "Managed", c_sensor)>>) }

\* the args dicts over the instances insts: distinct names, in either order
ArgsOver(insts) ==
    {<<>>}
    \cup {<<<<n, x>>>> : n \in ArgNames, x \in insts}
    \cup {<<<<p[1], x>>, <<p[2], y>>>> :
            p \in {q \in ArgNames \X ArgNames : q[1] # q[2]}, x \in insts, y \in insts}

Instances(self_concepts) == {self_concepts[i][2] : i \in DOMAIN self_concepts}
Elements(seq) == {seq[i] : i \in DOMAIN seq}

wIdle == concepts = EmptyDict /\ frames = <<>> /\ wlog = <<>> /\ wret = NoCall

AddConcept ==
    /\ Len(wlog) < MaxCalls
    /\ \E uid \in Uids, data \in WorldDatas :
        /\ concepts' = PossibleWorld_add_concept(concepts, uid, data)
        /\ wlog' = Append(wlog, [op |-> "add_concept", uid |-> uid, data |-> data])
    /\ wret' = [op |-> "add_concept"]
    /\ UNCHANGED frames

\* FrameInstance(frame, args), args binding instances got from the world
NewFrameInstance ==
    /\ \E frame \in WorldFrames, args \in ArgsOver(Instances(concepts)) :
        wret' = [op |-> "FrameInstance", frame |-> frame, args |-> args,
                 val |-> FrameInstance(frame, args)]
    /\ UNCHANGED <<concepts, frames, wlog>>

\* the FrameInstance objects the caller holds
Held ==
    Elements(frames)
    \cup (IF wret.op = "FrameInstance" /\ ~IsRaise(wret.val) THEN {wret.val} ELSE {})

AddFrame ==
    /\ Len(wlog) < MaxCalls
    /\ \E frame_inst \in Held :
        /\ frames' = PossibleWorld_add_frame(frames, frame_inst)
        /\ wlog' = Append(wlog, [op |-> "add_frame", frame_inst |-> frame_inst])
    /\ wret' = [op |-> "add_frame"]
    /\ UNCHANGED concepts

GetExtension ==
    /\ \E concept \in QueryConcepts :
        wret' = [op |-> "get_extension", concept |-> concept,
                 val |-> PossibleWorld_get_extension(concepts, concept)]
    /\ UNCHANGED <<concepts, frames, wlog>>

----------------------------------------------------------------------------
(* The Kripke structure: add_world, add_access, and one call of            *)
(* get_reachable_extension, one iteration of its while loop at a time.     *)

\* how many add_access calls the model makes
MaxEdges == 2

WorldNames == {"Home", "Garage", "Attic"}

\* a world with the instances of items added in order
RECURSIVE WorldWith(_, _, _)
WorldWith(world, items, i) ==
    IF i > Len(items) THEN world
    ELSE WorldWith([world EXCEPT !.concepts =
                        PossibleWorld_add_concept(world.concepts, items[i][1], items[i][2])],
                   items, i + 1)

\* the PossibleWorld objects handed to add_world; Attic is never registered
WorldPool ==
    { WorldWith(PossibleWorld("Home"),
          << <<"u1", <<<<"protocol", Str(1)>>, <<"battery", Int_(MaxVal)>>>> >>,
             <<"u2", <<<<"protocol", Str(MaxStr)>>, <<"battery", Int_(0)>>>> >> >>, 1),
      WorldWith(PossibleWorld("Garage"),
          << <<"u1", <<<<"battery", Int_(0)>>>> >> >>, 1),
      PossibleWorld("Garage") }

ReachConcepts == {c_sensor, atom_proto_any, atom_free}

RECURSIVE SumLen(_, _)
SumLen(d, i) == IF i > Len(d) THEN 0 ELSE Len(d[i][2]) + SumLen(d, i + 1)
NumEdges == SumLen(accessibility, 1)

Zero == [n \in WorldNames |-> 0]

sIdle == worlds = EmptyDict /\ accessibility = EmptyDict
qIdle == /\ pc = "idle" /\ start = "" /\ qconcept = None
         /\ visited = {} /\ queue = <<>> /\ results = EmptyDict
         /\ computed = Zero /\ expanded = Zero /\ iters = 0

AddWorld ==
    /\ pc = "idle"
    /\ \E world \in WorldPool : worlds' = KripkeStructure_add_world(worlds, world)
    /\ UNCHANGED <<accessibility, qvars>>

AddAccess ==
    /\ pc = "idle"
    /\ NumEdges < MaxEdges
    /\ \E from_world \in WorldNames, to_world \in WorldNames :
        accessibility' = KripkeStructure_add_access(accessibility, from_world, to_world)
    /\ UNCHANGED <<worlds, qvars>>

\* get_reachable_extension(start_world_name, concept), up to the while
CallQuery ==
    /\ pc = "idle"
    /\ \E start_world_name \in WorldNames, concept \in ReachConcepts :
        /\ start' = start_world_name
        /\ qconcept' = concept
        /\ queue' = <<start_world_name>>
    /\ visited' = {}
    /\ results' = EmptyDict
    /\ pc' = "loop"
    /\ UNCHANGED <<svars, computed, expanded, iters>>

\* `while queue:` fails: return results
QueryReturn ==
    /\ pc = "loop"
    /\ queue = <<>>
    /\ pc' = "done"
    /\ UNCHANGED <<svars, start, qconcept, visited, queue, results, computed, expanded, iters>>

\* an iteration that pops a name already visited
QuerySkip ==
    /\ pc = "loop"
    /\ queue # <<>>
    /\ AlreadyVisited(Head(queue), visited)
    /\ queue' = Tail(queue)
    /\ iters' = iters + 1
    /\ UNCHANGED <<svars, pc, start, qconcept, visited, results, computed, expanded>>

\* an iteration that visits the name it pops
QueryVisit ==
    /\ pc = "loop"
    /\ queue # <<>>
    /\ ~AlreadyVisited(Head(queue), visited)
    /\ LET current_name == Head(queue)
           registered == Has(worlds, current_name)
           extension == IF registered
                        THEN PossibleWorld_get_extension(Get(worlds, current_name).concepts,
                                                         qconcept)
                        ELSE List(<<>>)
           neighbors == IF Has(accessibility, current_name)
                        THEN Get(accessibility, current_name) ELSE <<>>
       IN  /\ visited' = visited \cup {current_name}
           /\ iters' = iters + 1
           /\ computed' = IF registered
                          THEN [computed EXCEPT ![current_name] = @ + 1] ELSE computed
           /\ IF IsRaise(extension)
              THEN /\ pc' = "raised"
                   /\ queue' = Tail(queue)
                   /\ UNCHANGED <<results, expanded>>
              ELSE /\ pc' = pc
                   /\ results' = IF extension.items # <<>>
                                 THEN Set(results, current_name, extension.items)
                                 ELSE results
                   /\ queue' = EnqueueNeighbors(Tail(queue), neighbors, visited', 1)
                   /\ expanded' = [expanded EXCEPT ![current_name] = @ + 1]
    /\ UNCHANGED <<svars, start, qconcept>>

----------------------------------------------------------------------------
(* The specifications, one per component; the components share no state.  *)

ConstraintInit ==
    /\ cself \in Constraints /\ cother \in Constraints /\ cret = NoCall
    /\ kIdle /\ fIdle /\ wIdle /\ sIdle /\ qIdle
ConstraintNext ==
    CallConstraintIntersect /\ UNCHANGED <<kvars, fvars, wvars, svars, qvars>>
SpecConstraint == ConstraintInit /\ [][ConstraintNext]_vars

ConceptInit ==
    /\ kself \in Concepts /\ kother = None /\ kdata = EmptyDict /\ kret = NoCall
    /\ cIdle /\ fIdle /\ wIdle /\ sIdle /\ qIdle
ConceptNext ==
    \/ CallAnd /\ UNCHANGED <<cvars, fvars, wvars, svars, qvars>>
    \/ CallCheck /\ UNCHANGED <<cvars, fvars, wvars, svars, qvars>>
SpecConcept == ConceptInit /\ [][ConceptNext]_vars

\* the concept algebra with a.is_subconcept_of(b) among its calls
SubsumptionNext ==
    \/ ConceptNext
    \/ CallIsSubconceptOf /\ UNCHANGED <<cvars, fvars, wvars, svars, qvars>>
SpecSubsumption == ConceptInit /\ [][SubsumptionNext]_vars

FrameInit == fIdle /\ cIdle /\ kIdle /\ wIdle /\ sIdle /\ qIdle
FrameNext ==
    \/ NewFrame /\ UNCHANGED <<cvars, kvars, wvars, svars, qvars>>
    \/ CallFrameAnd /\ UNCHANGED <<cvars, kvars, wvars, svars, qvars>>
SpecFrame == FrameInit /\ [][FrameNext]_vars

WorldInit == wIdle /\ cIdle /\ kIdle /\ fIdle /\ sIdle /\ qIdle
WorldNext ==
    \/ AddConcept /\ UNCHANGED <<cvars, kvars, fvars, svars, qvars>>
    \/ NewFrameInstance /\ UNCHANGED <<cvars, kvars, fvars, svars, qvars>>
    \/ AddFrame /\ UNCHANGED <<cvars, kvars, fvars, svars, qvars>>
    \/ GetExtension /\ UNCHANGED <<cvars, kvars, fvars, svars, qvars>>
SpecWorld == WorldInit /\ [][WorldNext]_vars

KripkeInit == sIdle /\ qIdle /\ cIdle /\ kIdle /\ fIdle /\ wIdle
KripkeNext ==
    \/ AddWorld /\ UNCHANGED <<cvars, kvars, fvars, wvars>>
    \/ AddAccess /\ UNCHANGED <<cvars, kvars, fvars, wvars>>
    \/ CallQuery /\ UNCHANGED <<cvars, kvars, fvars, wvars>>
    \/ QueryReturn /\ UNCHANGED <<cvars, kvars, fvars, wvars>>
    \/ QuerySkip /\ UNCHANGED <<cvars, kvars, fvars, wvars>>
    \/ QueryVisit /\ UNCHANGED <<cvars, kvars, fvars, wvars>>
SpecKripke == KripkeInit /\ [][KripkeNext]_vars

\* a call of get_reachable_extension runs on until it returns or raises
QueryStep ==
    (QueryReturn \/ QuerySkip \/ QueryVisit) /\ UNCHANGED <<cvars, kvars, fvars, wvars>>
FairSpecKripke == SpecKripke /\ WF_vars(QueryStep)

----------------------------------------------------------------------------
(* The query's call has ended, by return or by an exception.               *)
QueryEnded == pc \in {"done", "raised"}

\* the names reachable from the names of S along recorded edges, S included
RECURSIVE ReachFrom(_)
ReachFrom(S) ==
    LET N == S \cup UNION {Elements(Get(accessibility, f)) : f \in S \cap Keys(accessibility)}
    IN  IF N = S THEN S ELSE ReachFrom(N)

\* W.get_extension(qconcept) of the world registered as W
ExtensionAt(W) == PossibleWorld_get_extension(Get(worlds, W).concepts, qconcept)

\* the names the claim puts in the result
C1Keys ==
    {W \in ReachFrom({start}) :
        /\ Has(worlds, W)
        /\ ~IsRaise(ExtensionAt(W))
        /\ ExtensionAt(W).items # <<>>}

(* C1: get_reachable_extension(start, C) returns a mapping whose keys are  *)
(* exactly the names reachable from start (start included, paths through   *)
(* unregistered names allowed) that are registered and have a non-empty    *)
(* get_extension(C), each mapped to that extension.                        *)
C1Claim ==
    QueryEnded =>
        /\ pc = "done"
        /\ Keys(results) = C1Keys
        /\ \A W \in Keys(results) : Get(results, W) = ExtensionAt(W).items

(* C1, what the code does: the same, unless get_extension raises for a     *)
(* visited world, which ends the call with that exception.                 *)
C1UnlessRaised ==
    /\ pc = "done" =>
        /\ Keys(results) = C1Keys
        /\ \A W \in Keys(results) : Get(results, W) = ExtensionAt(W).items
    /\ pc = "raised" =>
        \E W \in ReachFrom({start}) : Has(worlds, W) /\ IsRaise(ExtensionAt(W))

\* what holds of the traversal at every moment
C2Safety ==
    /\ \A n \in WorldNames : computed[n] <= 1 /\ expanded[n] <= 1
    /\ iters <= 1 + NumEdges
    /\ QueryEnded => start \in visited
    /\ QueryEnded /\ Has(worlds, start) => computed[start] = 1

(* C2: over any recorded graph and from any start name, a call of          *)
(* get_reachable_extension ends; by then the start name has been visited;  *)
(* no name has its extension computed or its neighbours expanded more than *)
(* once, and the loop runs at most once per queue entry, of which there    *)
(* are at most one more than there are edges.                              *)
C2Theorem == []C2Safety /\ ((pc = "loop") ~> QueryEnded)

\* a traversal that returned after it queued a name twice, for two edges from
\* the start, popped it twice and visited it once
C2Witness ==
    /\ pc = "done"
    /\ iters > Cardinality(visited)
    /\ \E n \in visited \ {start} :
        /\ Has(accessibility, start)
        /\ Cardinality({i \in DOMAIN Get(accessibility, start) :
                            Get(accessibility, start)[i] = n}) >= 2
        /\ expanded[n] = 1

\* every bound instance satisfies its role's concept
TypesOK(frame, args) ==
    \A i \in DOMAIN args :
        IsTrue(Concept_check(Get(frame.argsInfo, args[i][1]).type, Dict(args[i][2].data)))
KeysOK(frame, args) == Keys(frame.argsInfo) = Keys(args)

(* C3: FrameInstance(S, B) succeeds iff B's keys are S's role variables    *)
(* and every bound instance satisfies its role's concept; differing keys   *)
(* give the argument-mismatch error, agreeing keys with a failing instance *)
(* the type-violation error; so every frame-list entry satisfied both.     *)
C3Claim ==
    /\ wret.op = "FrameInstance" =>
        /\ ~IsRaise(wret.val) <=> (KeysOK(wret.frame, wret.args) /\ TypesOK(wret.frame, wret.args))
        /\ ~KeysOK(wret.frame, wret.args) => wret.val = ArgumentMismatch
        /\ KeysOK(wret.frame, wret.args) /\ ~TypesOK(wret.frame, wret.args)
              => wret.val = TypeViolation
    /\ \A i \in DOMAIN frames :
        KeysOK(frames[i].frame, frames[i].args) /\ TypesOK(frames[i].frame, frames[i].args)

(* C4: every frame schema's ancestry set contains the schema itself: a     *)
(* fresh schema's is {itself}, and that of R = A.intersect(B) is           *)
(* ancestry(A) union ancestry(B) union {R}.                                *)
C4Claim ==
    /\ \A i \in DOMAIN heap : i \in heap[i]._intersection
    /\ fret.op = "new" => heap[fret.val.id]._intersection = {fret.val.id}
    /\ fret.op = "and" /\ ~IsRaise(fret.val) =>
        heap[fret.val.id]._intersection =
            heap[fret.self]._intersection \cup heap[fret.other]._intersection
            \cup {fret.val.id}

(* C5: when R = A.intersect(B) succeeds (A = B included), R is a subframe  *)
(* of A and of B, and neither A nor B is a subframe of R.                  *)
C5Claim ==
    fret.op = "and" /\ ~IsRaise(fret.val) =>
        LET R == heap[fret.val.id]
            A == heap[fret.self]
            B == heap[fret.other]
        IN  /\ Frame_is_subframe_of(R, A)
            /\ Frame_is_subframe_of(R, B)
            /\ ~Frame_is_subframe_of(A, R)
            /\ ~Frame_is_subframe_of(B, R)

(* C6: for every constraint a, a.intersect(Unconstrained) and              *)
(* Unconstrained.intersect(a) both succeed and return a.                   *)
C6Claim ==
    cret.op = "intersect" =>
        /\ cother = AnyValue => cret.val = cself
        /\ cself = AnyValue => cret.val = cother

(* C7: intersecting two ranges never fails and gives the range             *)
(* [max(l1,l2), min(h1,h2)], empty or not; intersecting two enumerations   *)
(* never fails and gives the enumeration of the set intersection, empty or *)
(* not; an empty result's check is false for every value.                  *)
C7Claim ==
    cret.op = "intersect" /\ cself.kind = cother.kind =>
        /\ cself.kind = "IntRange" =>
            LET lo == Max(cself.min_val, cother.min_val)
                hi == Min(cself.max_val, cother.max_val)
            IN  /\ cret.val = [kind |-> "IntRange", min_val |-> lo, max_val |-> hi]
                /\ lo > hi => \A x \in Scalars : IsFalse(Constraint_check(cret.val, x))
        /\ cself.kind = "ValueSet" =>
            LET both == cself.allowed \cap cother.allowed
            IN  /\ cret.val = [kind |-> "ValueSet", allowed |-> both]
                /\ both = {} => \A x \in Scalars : IsFalse(Constraint_check(cret.val, x))

\* the last call was a & b on two Composite concepts, and it returned
AndOfComposites ==
    /\ kret.op = "and"
    /\ kself.kind = "Composite" /\ kother.kind = "Composite"
    /\ ~IsRaise(kret.val)

(* C8: when a & b succeeds on Composite concepts a and b, the result c is  *)
(* Composite, is a subconcept of a and of b, and its attribute names are   *)
(* those of a together with those of b.                                    *)
C8Theorem ==
    AndOfComposites =>
        /\ kret.val.kind = "Composite"
        /\ Concept_is_subconcept_of(kret.val, kself)
        /\ Concept_is_subconcept_of(kret.val, kother)
        /\ Keys(kret.val.attributes) = Keys(kself.attributes) \cup Keys(kother.attributes)

\* a conjunction that narrowed a shared attribute and copied one from each side
C8Witness ==
    /\ AndOfComposites
    /\ Keys(kself.attributes) = {"battery", "protocol"}
    /\ Keys(kother.attributes) = {"battery"}
    /\ Get(kself.attributes, "battery").constraint = IntRange(0, MaxVal)
    /\ Get(kother.attributes, "battery").constraint = IntRange(1, MaxVal)
    /\ Get(kret.val.attributes, "battery").constraint = IntRange(1, MaxVal)

(* C9: check never raises, and for an Atomic concept of attribute n and    *)
(* constraint k, check(d) is true iff n is a key of d and k.check(d[n]).   *)
C9Claim ==
    kret.op = "check" /\ kself.kind = "Atomic" =>
        kret.val = Bool(/\ Has(kdata, kself.name)
                        /\ IsTrue(Constraint_check(kself.constraint,
                                                   Get(kdata, kself.name))))

\* the uids of the add_concept calls of log, each once, in order of first call
RECURSIVE UidsAdded(_, _, _)
UidsAdded(log, i, acc) ==
    IF i > Len(log) THEN acc
    ELSE UidsAdded(log, i + 1,
                   IF log[i].op = "add_concept" /\ log[i].uid \notin Elements(acc)
                   THEN Append(acc, log[i].uid) ELSE acc)

\* the data of the last add_concept(uid, ...) of log
LastData(log, uid) ==
    LET last == CHOOSE i \in DOMAIN log :
                    /\ log[i].op = "add_concept" /\ log[i].uid = uid
                    /\ \A j \in DOMAIN log :
                          (log[j].op = "add_concept" /\ log[j].uid = uid) => j <= i
    IN  log[last].data

\* the frame instances of the add_frame calls of log, in order
FramesAdded(log) ==
    LET calls == SelectSeq(log, LAMBDA e : e.op = "add_frame")
    IN  [i \in DOMAIN calls |-> calls[i].frame_inst]

\* one instance per uid added, with its last data, where that satisfies concept
ExpectedExtension(log, concept) ==
    LET uids == UidsAdded(log, 1, <<>>)
        kept == SelectSeq(uids,
                    LAMBDA u : IsTrue(Concept_check(concept, Dict(LastData(log, u)))))
    IN  [i \in DOMAIN kept |-> ConceptInstance(kept[i], LastData(log, kept[i]))]

(* C10: get_extension(C) returns, in the order the uids were first added,  *)
(* one instance per uid whose last written data satisfies C.check, and no  *)
(* others; add_frame appends every instance it is given and leaves the     *)
(* concept mapping alone.                                                  *)
C10Claim ==
    /\ wret.op = "get_extension" =>
        wret.val = List(ExpectedExtension(wlog, wret.concept))
    /\ frames = FramesAdded(wlog)

(* C10, what the code does: the same, unless C.check raises for an         *)
(* instance of the world, which ends get_extension with that exception.    *)
C10UnlessRaised ==
    /\ wret.op = "get_extension" =>
        \/ wret.val = List(ExpectedExtension(wlog, wret.concept))
        \/ /\ IsRaise(wret.val)
           /\ \E x \in Instances(concepts) :
                 IsRaise(Concept_check(wret.concept, Dict(x.data)))
    /\ frames = FramesAdded(wlog)

\* the last call was a.is_subconcept_of(b), and it returned True
Subsumed == kret.op = "is_subconcept_of" /\ IsTrue(kret.val)

(* C11: if a.is_subconcept_of(b), then every attribute mapping d with      *)
(* a.check(d) true has b.check(d) true, for Atomic and Composite a and b.  *)
C11Claim ==
    Subsumed =>
        \A d \in Datas :
            IsTrue(Concept_check(kself, Dict(d))) => IsTrue(Concept_check(kother, Dict(d)))

(* C11, what the code does: the same where the superconcept b is           *)
(* Composite, whose check reads d[n]; an Atomic b is handed d itself.      *)
C11AboveComposite ==
    Subsumed /\ kother.kind = "Composite" =>
        \A d \in Datas :
            IsTrue(Concept_check(kself, Dict(d))) => IsTrue(Concept_check(kother, Dict(d)))

====
